---- MODULE Spec2Model ----
(***************************************************************************)
(* Session tree: fork detection (scripts/build_tree.py) and the            *)
(* interactive browser's event loop (scripts/interactive_tree.py).         *)
(*                                                                         *)
(* Strings are sequences of one-character strings, so that slicing,        *)
(* lower-casing and substring search are computed as the code computes     *)
(* them.  A timestamp is a natural number; 0 stands for the empty string   *)
(* (a missing timestamp), which Python orders before every other string.   *)
(* A session id is a natural number (the ids are the distinct base names   *)
(* of the files of one directory).                                         *)
(***************************************************************************)
EXTENDS Integers, Sequences, FiniteSets, TLC

VARIABLES
    files,          \* the session records found on disk, in glob order
    df,             \* the last result of detect_forks
    tree,           \* the tree data: sessions, edges, roots, children
    all_rows,       \* build_full_rows(tree)
    vis,            \* the last result of get_visible_rows (pure-function runs)
    collapsed,      \* main: collapsed
    rows,           \* main: rows
    selected,       \* main: selected
    scroll_offset,  \* main: scroll_offset
    filter_text,    \* main: filter_text (None when not searching)
    height,         \* stdscr.getmaxyx()[0] of the current iteration
    pc,             \* position of main
    result,         \* the value main returned
    last,           \* history: the last event and the state it was handled in
    pre_search,     \* history: the state in which the search was entered
    committed,      \* history: the rows and text the last search Enter kept
    keyword,        \* __main__: args.filter
    exit_code       \* __main__: the status of sys.exit, NotExited before

vars == <<files, df, tree, all_rows, vis, collapsed, rows, selected,
          scroll_offset, filter_text, height, pc, result, last, pre_search,
          committed, keyword, exit_code>>

(***************************************************************************)
(* Bounds of the model.                                                    *)
(***************************************************************************)
MaxSessions == 3
MaxFilterLen == 2
MaxNodes == 4
MaxTime == 2
MinHeight == 4
MaxHeight == 5

Min(a, b) == IF a < b THEN a ELSE b
Max(a, b) == IF a > b THEN a ELSE b
Range(s) == {s[i] : i \in DOMAIN s}

(***************************************************************************)
(* Strings.                                                                *)
(***************************************************************************)
\* str.lower() on one character of the alphabet the model draws from
LowerChar(c) ==
    CASE c = "A" -> "a"
      [] c = "B" -> "b"
      [] OTHER -> c

Lower(s) == [i \in DOMAIN s |-> LowerChar(s[i])]

\* needle in hay
Contains(needle, hay) ==
    \E i \in 0..(Len(hay) - Len(needle)) :
        SubSeq(hay, i + 1, i + Len(needle)) = needle

\* s[:n]
Prefix(s, n) == SubSeq(s, 1, Min(n, Len(s)))

NoPrompt == <<"(", "n", "o", " ", "p", "r", "o", "m", "p", "t", ")">>
NameLimit == 60

(***************************************************************************)
(* list.sort(key=...) and sorted(..., key=...): a stable sort.  key is a   *)
(* function from the elements to naturals.                                 *)
(***************************************************************************)
RECURSIVE InsertByKey(_, _, _)
InsertByKey(sorted, x, key) ==
    IF sorted = <<>> THEN <<x>>
    ELSE IF key[sorted[Len(sorted)]] <= key[x] THEN Append(sorted, x)
    ELSE Append(InsertByKey(SubSeq(sorted, 1, Len(sorted) - 1), x, key),
                sorted[Len(sorted)])

RECURSIVE StableSort(_, _)
StableSort(s, key) ==
    IF s = <<>> THEN <<>>
    ELSE InsertByKey(StableSort(SubSeq(s, 1, Len(s) - 1), key), s[Len(s)], key)

TimestampKey(sessions) == [s \in Range(sessions) |-> s.firstTimestamp]

(***************************************************************************)
(* detect_forks                                                            *)
(***************************************************************************)
\* the keys of by_prompt in insertion order: the distinct non-empty prompts
RECURSIVE PromptOrder(_)
PromptOrder(sessions) ==
    IF sessions = <<>> THEN <<>>
    ELSE LET front == PromptOrder(SubSeq(sessions, 1, Len(sessions) - 1))
             p == sessions[Len(sessions)].firstPrompt
         IN IF p = <<>> \/ p \in Range(front) THEN front ELSE Append(front, p)

\* by_prompt[prompt]: the sessions of that prompt, in input order
ByPrompt(sessions, prompt) ==
    SelectSeq(sessions, LAMBDA s : s.firstPrompt = prompt)

\* the group left in input order
SortGroupUnsorted(group) == group

\* group.sort(key=lambda x: x["firstTimestamp"])
SortGroup(group) == StableSort(group, TimestampKey(group))

\* the loop over group[0:] instead of group[1:]
GroupStepAllChildren(acc, group) ==
    IF Len(group) < 2
    THEN [acc EXCEPT !.roots = @ \cup {group[1].sessionId}]
    ELSE LET g == SortGroup(group)
             root == g[1]
         IN [edges |-> acc.edges \o
                       [i \in 1..Len(g) |-> <<root.sessionId, g[i].sessionId>>],
             roots |-> acc.roots \cup {root.sessionId}]

\* one iteration of "for prompt, group in by_prompt.items()"
GroupStep(acc, group) ==
    IF Len(group) < 2
    THEN [acc EXCEPT !.roots = @ \cup {group[1].sessionId}]
    ELSE LET g == SortGroup(group)
             root == g[1]
         IN [edges |-> acc.edges \o
                       [i \in 1..(Len(g) - 1) |->
                           <<root.sessionId, g[i + 1].sessionId>>],
             roots |-> acc.roots \cup {root.sessionId}]

RECURSIVE GroupLoop(_, _, _)
GroupLoop(acc, sessions, prompts) ==
    IF prompts = <<>> THEN acc
    ELSE GroupLoop(GroupStep(acc, ByPrompt(sessions, Head(prompts))),
                   sessions, Tail(prompts))

\* the last loop left out
StandaloneLoopSkipped(acc, sessions) == acc

\* the last loop: a session that is neither a root nor a child becomes a root
RECURSIVE StandaloneLoop(_, _)
StandaloneLoop(acc, sessions) ==
    IF sessions = <<>> THEN acc
    ELSE LET s == Head(sessions)
             isChild == \E i \in DOMAIN acc.edges : acc.edges[i][2] = s.sessionId
         IN StandaloneLoop(
                IF s.sessionId \notin acc.roots /\ ~isChild
                THEN [acc EXCEPT !.roots = @ \cup {s.sessionId}]
                ELSE acc,
                Tail(sessions))

detect_forks(sessions) ==
    StandaloneLoop(
        GroupLoop([edges |-> <<>>, roots |-> {}], sessions, PromptOrder(sessions)),
        sessions)

(***************************************************************************)
(* build_tree_json                                                         *)
(***************************************************************************)
\* sessions with messageCount > 0, then sessions.sort(key=firstTimestamp)
LoadSessions(fs) ==
    LET kept == SelectSeq(fs, LAMBDA s : s.messageCount > 0)
    IN StableSort(kept, TimestampKey(kept))

\* children: parent id -> the child ids in edge order (only parents are keys)
ChildrenOf(edges) ==
    [p \in {edges[i][1] : i \in DOMAIN edges} |->
        LET mine == SelectSeq(edges, LAMBDA e : e[1] = p)
        IN [i \in DOMAIN mine |-> mine[i][2]]]

SessionMap(sessions) ==
    [id \in {sessions[i].sessionId : i \in DOMAIN sessions} |->
        CHOOSE s \in Range(sessions) : s.sessionId = id]

\* the orders in which a set may be iterated
Orders(S) ==
    {p \in [1..Cardinality(S) -> S] : \A i, j \in DOMAIN p : i # j => p[i] # p[j]}

\* list(roots): the set in its iteration order, unsorted
SortRootsUnsorted(order, session_map) == order

\* sorted(roots, key=lambda r: session_map.get(r, {}).get("firstTimestamp", ""))
\* applied to the set in the iteration order `order`
SortRoots(order, session_map) ==
    StableSort(order, [r \in Range(order) |->
                          IF r \in DOMAIN session_map
                          THEN session_map[r].firstTimestamp ELSE 0])

\* the tree build_tree_json returns when the root set is iterated in `order`
TreeJson(sessions, forks, order) ==
    [sessions |-> SessionMap(sessions),
     edges    |-> forks.edges,
     roots    |-> SortRoots(order, SessionMap(sessions)),
     children |-> ChildrenOf(forks.edges)]

\* every tree build_tree_json may return for the files found
build_tree_json(fs) ==
    LET sessions == LoadSessions(fs)
        forks == detect_forks(sessions)
    IN {TreeJson(sessions, forks, order) : order \in Orders(forks.roots)}

EmptyTree == [sessions |-> <<>>, edges |-> <<>>, roots |-> <<>>, children |-> <<>>]

(***************************************************************************)
(* format_timestamp: "?" for a missing timestamp, otherwise its text.      *)
(***************************************************************************)
format_timestamp(ts) == IF ts = 0 THEN "?" ELSE ToString(ts)

(***************************************************************************)
(* build_full_rows                                                         *)
(***************************************************************************)
\* name = s.get("name") or s.get("firstPrompt", "")[:60] or "(no prompt)"
DisplayName(s) ==
    IF s.name # <<>> THEN s.name
    ELSE IF Prefix(s.firstPrompt, NameLimit) # <<>>
         THEN Prefix(s.firstPrompt, NameLimit)
         ELSE NoPrompt

\* child_ids = children.get(sid, []) without the sort
SortedChildrenUnsorted(tree_data, sid) ==
    IF sid \in DOMAIN tree_data.children THEN tree_data.children[sid] ELSE <<>>

\* child_ids = children.get(sid, []); child_ids.sort(key=firstTimestamp)
SortedChildren(tree_data, sid) ==
    LET child_ids == IF sid \in DOMAIN tree_data.children
                     THEN tree_data.children[sid] ELSE <<>>
    IN StableSort(child_ids,
                  [c \in Range(child_ids) |->
                      IF c \in DOMAIN tree_data.sessions
                      THEN tree_data.sessions[c].firstTimestamp ELSE 0])

\* rows.append((depth, ts, msgs, name, sid, child_ids))
FullRow(tree_data, sid, depth) ==
    LET s == tree_data.sessions[sid]
    IN [depth |-> depth,
        ts |-> format_timestamp(s.firstTimestamp),
        msgs |-> s.messageCount,
        name |-> DisplayName(s),
        sid |-> sid,
        child_ids |-> SortedChildren(tree_data, sid)]

\* walk(sid, depth) for every sid of the sequence ids, in order
RECURSIVE WalkEach(_, _, _)
WalkEach(tree_data, ids, depth) ==
    IF ids = <<>> THEN <<>>
    ELSE LET row == FullRow(tree_data, Head(ids), depth)
         IN <<row>> \o WalkEach(tree_data, row.child_ids, depth + 1)
                    \o WalkEach(tree_data, Tail(ids), depth)

build_full_rows(tree_data) == WalkEach(tree_data, tree_data.roots, 0)

(***************************************************************************)
(* get_visible_rows                                                        *)
(***************************************************************************)
NoSkip == -1    \* skip_depth = None

VisibleRow(row, cset) ==
    [depth |-> row.depth, ts |-> row.ts, msgs |-> row.msgs, name |-> row.name,
     sid |-> row.sid,
     has_children |-> Len(row.child_ids) > 0,
     is_collapsed |-> row.sid \in cset]

\* the loop with "if has_children: skip_depth = depth"
RECURSIVE VisibleLoopSkipsParents(_, _, _, _, _)
VisibleLoopSkipsParents(full, cset, i, skip_depth, visible) ==
    IF i > Len(full) THEN visible
    ELSE IF skip_depth # NoSkip /\ full[i].depth > skip_depth
         THEN VisibleLoopSkipsParents(full, cset, i + 1, skip_depth, visible)
         ELSE VisibleLoopSkipsParents(full, cset, i + 1,
                          IF Len(full[i].child_ids) > 0 THEN full[i].depth ELSE NoSkip,
                          Append(visible, VisibleRow(full[i], cset)))

\* the loop with "depth >= skip_depth": the next sibling is skipped too
RECURSIVE VisibleLoopSkipsSiblings(_, _, _, _, _)
VisibleLoopSkipsSiblings(full, cset, i, skip_depth, visible) ==
    IF i > Len(full) THEN visible
    ELSE IF skip_depth # NoSkip /\ full[i].depth >= skip_depth
         THEN VisibleLoopSkipsSiblings(full, cset, i + 1, skip_depth, visible)
         ELSE VisibleLoopSkipsSiblings(full, cset, i + 1,
                          IF full[i].sid \in cset THEN full[i].depth ELSE NoSkip,
                          Append(visible, VisibleRow(full[i], cset)))

\* the loop body from row i on, with the rows emitted so far and skip_depth
RECURSIVE VisibleLoop(_, _, _, _, _)
VisibleLoop(full, cset, i, skip_depth, visible) ==
    IF i > Len(full) THEN visible
    ELSE IF skip_depth # NoSkip /\ full[i].depth > skip_depth
         THEN VisibleLoop(full, cset, i + 1, skip_depth, visible)
         ELSE VisibleLoop(full, cset, i + 1,
                          IF full[i].sid \in cset THEN full[i].depth ELSE NoSkip,
                          Append(visible, VisibleRow(full[i], cset)))

get_visible_rows(full, cset) == VisibleLoop(full, cset, 1, NoSkip, <<>>)

(***************************************************************************)
(* The session records a run may find: every list of up to n records with  *)
(* <<firstPrompt, name, firstTimestamp, messageCount>> in attrs.  The       *)
(* record of the i-th file has the id i.                                   *)
(***************************************************************************)
FileLists(n, attrs) ==
    UNION {{[i \in 1..k |->
                [sessionId |-> i, firstPrompt |-> a[i][1], name |-> a[i][2],
                 firstTimestamp |-> a[i][3], messageCount |-> a[i][4]]] :
               a \in [1..k -> attrs]} :
           k \in 0..n}

FixBug == <<"f", "i", "x", " ", "b", "u", "g">>
AddFeature == <<"a", "d", "d", " ", "f", "e", "a", "t", "u", "r", "e">>

\* A("fix bug", t=1), B("fix bug", t=5), C("add feature", t=2)
ExampleFiles ==
    <<[sessionId |-> 1, firstPrompt |-> FixBug, name |-> <<>>,
       firstTimestamp |-> 1, messageCount |-> 1],
      [sessionId |-> 2, firstPrompt |-> FixBug, name |-> <<>>,
       firstTimestamp |-> 5, messageCount |-> 1],
      [sessionId |-> 3, firstPrompt |-> AddFeature, name |-> <<>>,
       firstTimestamp |-> 2, messageCount |-> 1]>>

\* lists of sessions with messages, shorter lists with empty sessions among
\* them, and the example
ForkFileLists(n) ==
    FileLists(n, {<<>>, <<"a">>, <<"b">>} \X {<<>>} \X (0..MaxTime) \X {1})
        \cup FileLists(n - 1, {<<>>, <<"a">>, <<"b">>} \X {<<>>} \X (0..MaxTime)
                                  \X {0, 1})
        \cup {ExampleFiles}

NoForks == [edges |-> <<>>, roots |-> {}]
NoFilter == <<"None">>      \* filter_text = None
NotReturned == -2           \* main has not returned
ReturnedNone == -1          \* main returned None
NoEvent == [ev |-> "none", rows |-> <<>>, selected |-> 0, collapsed |-> {},
            filter_text |-> NoFilter]
NoSearch == [rows |-> <<>>, selected |-> 0]
NoCommit == [set |-> FALSE, rows |-> <<>>, text |-> <<>>]
NoKeyword == <<>>           \* args.filter = None
NotExited == -1             \* sys.exit has not been called

\* the variables of the event loop before main has set them
LoopIdle ==
    /\ collapsed = {}
    /\ rows = <<>>
    /\ selected = 0
    /\ scroll_offset = 0
    /\ filter_text = NoFilter
    /\ height = 0
    /\ result = NotReturned
    /\ last = NoEvent
    /\ pre_search = NoSearch
    /\ committed = NoCommit

LoopVars == <<collapsed, rows, selected, scroll_offset, filter_text, height,
              result, last, pre_search, committed>>

\* the variables of the non-interactive filter mode
FilterVars == <<keyword, exit_code>>

FilterIdle == keyword = NoKeyword /\ exit_code = NotExited

(***************************************************************************)
(* SpecForks: detect_forks and build_tree_json applied to any file list.   *)
(***************************************************************************)
InitForks ==
    /\ files \in ForkFileLists(MaxSessions)
    /\ df = NoForks
    /\ tree = EmptyTree
    /\ all_rows = <<>>
    /\ vis = <<>>
    /\ pc = "input"
    /\ LoopIdle
    /\ FilterIdle

\* edges, roots = detect_forks(files)
DetectForks ==
    /\ pc = "input"
    /\ df' = detect_forks(files)
    /\ pc' = "forks"
    /\ UNCHANGED <<files, tree, all_rows, vis, LoopVars, FilterVars>>

\* tree = build_tree_json(project_path)
BuildTreeJson ==
    /\ pc \in {"input", "forks"}
    /\ tree' \in build_tree_json(files)
    /\ pc' = "tree"
    /\ UNCHANGED <<files, df, all_rows, vis, LoopVars, FilterVars>>

NextForks == DetectForks \/ BuildTreeJson

SpecForks == InitForks /\ [][NextForks]_vars

(***************************************************************************)
(* Claims about detect_forks and build_tree_json (SpecForks).              *)
(***************************************************************************)
FileIds == {files[i].sessionId : i \in DOMAIN files}

\* the positions in files of the sessions whose prompt is p
GroupAt(p) == {i \in DOMAIN files : files[i].firstPrompt = p}

SharedPrompts ==
    {p \in {files[i].firstPrompt : i \in DOMAIN files} :
        p # <<>> /\ Cardinality(GroupAt(p)) >= 2}

\* the member with the least timestamp, the first of them in input order
EarliestAt(p) ==
    CHOOSE i \in GroupAt(p) :
        \A j \in GroupAt(p) \ {i} :
            \/ files[i].firstTimestamp < files[j].firstTimestamp
            \/ (files[i].firstTimestamp = files[j].firstTimestamp /\ i < j)

GroupIds(p) == {files[i].sessionId : i \in GroupAt(p)}

EdgesTouching(ids) ==
    {i \in DOMAIN df.edges : df.edges[i][1] \in ids \/ df.edges[i][2] \in ids}

\* C4: a group of k >= 2 sessions sharing a non-empty prompt gets exactly k-1
\* edges, all from its earliest member (ties by input order, a missing
\* timestamp least), and that member is the group's only root.
C4_GroupEdges ==
    pc = "forks" =>
        \A p \in SharedPrompts :
            LET root == files[EarliestAt(p)].sessionId
            IN /\ Cardinality(EdgesTouching(GroupIds(p))) = Cardinality(GroupAt(p)) - 1
               /\ \A i \in EdgesTouching(GroupIds(p)) :
                     /\ df.edges[i][1] = root
                     /\ df.edges[i][2] \in GroupIds(p) \ {root}
               /\ \A c \in GroupIds(p) \ {root} :
                     \E i \in DOMAIN df.edges : df.edges[i] = <<root, c>>
               /\ df.roots \cap GroupIds(p) = {root}

\* a group of three whose earliest member is not the first in input order,
\* with a tie on the least timestamp
C4_Witness ==
    /\ pc = "forks"
    /\ \E p \in SharedPrompts :
          /\ Cardinality(GroupAt(p)) = 3
          /\ EarliestAt(p) # 1
          /\ \E j \in GroupAt(p) \ {EarliestAt(p)} :
                files[j].firstTimestamp = files[EarliestAt(p)].firstTimestamp
          /\ Len(df.edges) = 2

PromptsDistinct ==
    \A i, j \in DOMAIN files : i # j => files[i].firstPrompt # files[j].firstPrompt

\* C5: sessions with pairwise distinct prompts give no edge, and every
\* session is a root.
C5_DistinctPrompts ==
    (pc = "forks" /\ PromptsDistinct) => (df.edges = <<>> /\ df.roots = FileIds)

C5_Witness ==
    /\ pc = "forks"
    /\ PromptsDistinct
    /\ Len(files) = 3
    /\ df.roots = {1, 2, 3}

ChildEdges(id) == {i \in DOMAIN df.edges : df.edges[i][2] = id}

\* C6: the forest partitions the sessions: each id is a root or the child of
\* exactly one edge, never both, and every edge's parent is a root.
C6_Partition ==
    pc = "forks" =>
        /\ \A id \in FileIds :
              \/ (id \in df.roots /\ ChildEdges(id) = {})
              \/ (id \notin df.roots /\ Cardinality(ChildEdges(id)) = 1)
        /\ df.roots \subseteq FileIds
        /\ \A i \in DOMAIN df.edges :
              /\ df.edges[i][1] \in df.roots
              /\ df.edges[i][2] \in FileIds

\* a forest with an edge, a root without a prompt and a root with one
C6_Witness ==
    /\ pc = "forks"
    /\ Len(df.edges) >= 1
    /\ \E i \in DOMAIN files :
          files[i].firstPrompt = <<>> /\ files[i].sessionId \in df.roots
    /\ Cardinality(df.roots) >= 2

NonDecreasing(ids) ==
    \A i, j \in DOMAIN ids :
        i < j => tree.sessions[ids[i]].firstTimestamp
                    <= tree.sessions[ids[j]].firstTimestamp

\* C7: build_tree_json returns roots and every children list in
\* non-decreasing startTime order; the example gives roots [A, C],
\* edges [(A, B)], children {A: [B]}.
C7_SortedTree ==
    pc = "tree" =>
        /\ NonDecreasing(tree.roots)
        /\ \A p \in DOMAIN tree.children : NonDecreasing(tree.children[p])
        /\ files = ExampleFiles =>
              /\ tree.roots = <<1, 3>>
              /\ tree.edges = << <<1, 2>> >>
              /\ DOMAIN tree.children = {1}
              /\ tree.children[1] = <<2>>

\* the example's tree: two roots of different times and a parent with a child
C7_Witness ==
    /\ pc = "tree"
    /\ files = ExampleFiles
    /\ Len(tree.roots) >= 2
    /\ tree.sessions[tree.roots[1]].firstTimestamp
          < tree.sessions[tree.roots[2]].firstTimestamp
    /\ \E p \in DOMAIN tree.children : Len(tree.children[p]) >= 1

(***************************************************************************)
(* The non-interactive filter mode of __main__ (--filter KEYWORD).         *)
(* The text of the session id i is "s" followed by the digit of i.         *)
(***************************************************************************)
SidText(id) == <<"s", ToString(id)>>

\* name = s.get("name") or s.get("firstPrompt", "")
MatchName(s) == IF s.name # <<>> THEN s.name ELSE s.firstPrompt

\* keyword in name.lower() or keyword in sid.lower()
Matches(kw, s) ==
    \/ Contains(kw, Lower(MatchName(s)))
    \/ Contains(kw, Lower(SidText(s.sessionId)))

\* the keys of tree["sessions"] in insertion order: the loaded sessions
SessionOrder(fs) ==
    LET sessions == LoadSessions(fs)
    IN [i \in DOMAIN sessions |-> sessions[i].sessionId]

NoMatch == 0    \* match = None

\* the loop that keeps the last matching session instead of the first
RECURSIVE FirstMatchKeepsLast(_, _, _)
FirstMatchKeepsLast(kw, order, session_map) ==
    IF order = <<>> THEN NoMatch
    ELSE LET later == FirstMatchKeepsLast(kw, Tail(order), session_map)
         IN IF later # NoMatch THEN later
            ELSE IF Matches(kw, session_map[Head(order)]) THEN Head(order)
            ELSE NoMatch

\* for sid, s in tree["sessions"].items(): ... match = sid; break
RECURSIVE FirstMatch(_, _, _)
FirstMatch(kw, order, session_map) ==
    IF order = <<>> THEN NoMatch
    ELSE IF Matches(kw, session_map[Head(order)]) THEN Head(order)
    ELSE FirstMatch(kw, Tail(order), session_map)

\* collect_subtree(sid): the node and all its descendants
RECURSIVE collect_subtree(_, _)
collect_subtree(children, sid) ==
    {sid} \cup
    (IF sid \in DOMAIN children
     THEN UNION {collect_subtree(children, c) : c \in Range(children[sid])}
     ELSE {})

\* lines 252-256: the tree restricted to keep, rooted at match
FilterTree(t, match) ==
    LET keep == collect_subtree(t.children, match)
    IN [sessions |-> [k \in DOMAIN t.sessions \cap keep |-> t.sessions[k]],
        edges    |-> SelectSeq(t.edges, LAMBDA e : e[1] \in keep /\ e[2] \in keep),
        roots    |-> <<match>>,
        children |-> [k \in DOMAIN t.children \cap keep |-> t.children[k]]]

\* sessions with or without a prompt and a custom title, at two start times
FilterFileLists(n) ==
    FileLists(n, {<<pn[1], pn[2], t, 1>> :
                     pn \in {<< <<>>, <<>> >>, << <<"b">>, <<>> >>,
                             << <<"b">>, <<"A">> >>},
                     t \in {1, 2}})

\* the keywords: texts of 1 to n characters; "A" and "b" occur in titles and
\* prompts, "p" in the placeholder "(no prompt)", "2" in an id
Keywords(n) == UNION {[1..k -> {"A", "b", "p", "2"}] : k \in 1..n}

InitFilter ==
    /\ files \in FilterFileLists(MaxSessions)
    /\ keyword \in Keywords(MaxFilterLen) \cup {NoKeyword}
    /\ exit_code = NotExited
    /\ df = NoForks
    /\ tree = EmptyTree
    /\ all_rows = <<>>
    /\ vis = <<>>
    /\ pc = "input"
    /\ LoopIdle

\* lines 235-259: if args.filter: restrict the tree or exit with status 1
FilterMode ==
    /\ pc = "tree"
    /\ keyword # NoKeyword
    /\ LET match == FirstMatch(Lower(keyword), SessionOrder(files), tree.sessions)
       IN IF match # NoMatch
          THEN /\ tree' = FilterTree(tree, match)
               /\ pc' = "filtered"
               /\ exit_code' = exit_code
          ELSE /\ tree' = tree
               /\ pc' = "exit"
               /\ exit_code' = 1
    /\ last' = [ev |-> "filter", tree |-> tree]
    /\ UNCHANGED <<files, df, all_rows, vis, collapsed, rows, selected,
                   scroll_offset, filter_text, height, result, pre_search,
                   committed, keyword>>

\* lines 261 on: the tree is printed, after the filter when there is one
PrintTree ==
    /\ \/ pc = "filtered"
       \/ pc = "tree" /\ keyword = NoKeyword
    /\ pc' = "printed"
    /\ UNCHANGED <<files, df, tree, all_rows, vis, LoopVars, FilterVars>>

NextFilter == BuildTreeJson \/ FilterMode \/ PrintTree

SpecFilter == InitFilter /\ [][NextFilter]_vars

(***************************************************************************)
(* Claims about the filter mode (SpecFilter).                              *)
(***************************************************************************)
Filtered == pc \in {"filtered", "exit"}

\* the tree before the filter was applied
Unfiltered == last.tree

\* the ids reachable from m through children in at most n steps
RECURSIVE ReachableWithin(_, _, _)
ReachableWithin(children, m, n) ==
    IF n = 0 THEN {m}
    ELSE LET near == ReachableWithin(children, m, n - 1)
         IN near \cup {c \in DOMAIN Unfiltered.sessions :
                          \E q \in near \cap DOMAIN children : c \in Range(children[q])}

Reachable(m) ==
    ReachableWithin(Unfiltered.children, m, Cardinality(DOMAIN Unfiltered.sessions))

\* the display name: the title, else the prompt, else the placeholder
PlaceholderName(s) ==
    IF s.name # <<>> THEN s.name
    ELSE IF s.firstPrompt # <<>> THEN s.firstPrompt ELSE NoPrompt

\* the title, else the prompt, else nothing
TitleOrPrompt(s) == IF s.name # <<>> THEN s.name ELSE s.firstPrompt

\* the positions, in the order of the session map, of the sessions whose
\* name (as given by nameOf) or id contains the keyword, case-insensitively
MatchingAt(nameOf(_)) ==
    LET order == SessionOrder(files)
    IN {i \in DOMAIN order :
           \/ Contains(Lower(keyword), Lower(nameOf(Unfiltered.sessions[order[i]])))
           \/ Contains(Lower(keyword), Lower(SidText(order[i])))}

\* the outcome of the filter given the positions of the matching sessions
FilterOutcome(matching) ==
    IF matching # {}
    THEN LET m == SessionOrder(files)[CHOOSE i \in matching :
                                          \A j \in matching : i <= j]
         IN /\ pc = "filtered"
            /\ exit_code = NotExited
            /\ tree.roots = <<m>>
            /\ DOMAIN tree.sessions = Reachable(m)
            /\ \A k \in DOMAIN tree.sessions : tree.sessions[k] = Unfiltered.sessions[k]
            /\ DOMAIN tree.children = DOMAIN Unfiltered.children \cap Reachable(m)
            /\ \A k \in DOMAIN tree.children : tree.children[k] = Unfiltered.children[k]
            /\ \A i \in DOMAIN tree.edges :
                  tree.edges[i][1] \in Reachable(m) /\ tree.edges[i][2] \in Reachable(m)
            /\ tree.edges = SelectSeq(Unfiltered.edges,
                                LAMBDA e : e[1] \in Reachable(m) /\ e[2] \in Reachable(m))
    ELSE /\ pc = "exit"
         /\ exit_code = 1

\* C11: with a keyword K, if some session's display name (title,
\* else prompt, else the placeholder) or id contains K case-insensitively,
\* the output is rooted at the first such session and restricted to the ids
\* reachable from it; otherwise the run exits with status 1 and no tree.
C11_FilterByDisplayName ==
    /\ Filtered => FilterOutcome(MatchingAt(PlaceholderName))
    /\ (pc = "printed" /\ keyword # NoKeyword) => exit_code = NotExited

\* what the code does: the same with the title, else the prompt, in place of
\* the display name; the placeholder of a session with neither is not matched.
C11_FilterByTitleOrPrompt ==
    /\ Filtered => FilterOutcome(MatchingAt(TitleOrPrompt))
    /\ (pc = "printed" /\ keyword # NoKeyword) =>
          /\ exit_code = NotExited
          /\ MatchingAt(TitleOrPrompt) # {}

\* the keyword matches the second and third session of the map but not the
\* first, and the selected session has a child that is kept
C11_Witness ==
    /\ pc = "filtered"
    /\ MatchingAt(TitleOrPrompt) = {2, 3}
    /\ Len(tree.edges) = 1
    /\ Cardinality(DOMAIN tree.sessions) = 2
    /\ Cardinality(DOMAIN Unfiltered.sessions) = 3

\* no session matches: the run has exited with status 1
C11_WitnessNotFound ==
    /\ pc = "exit"
    /\ Len(files) = 3
    /\ MatchingAt(TitleOrPrompt) = {}

(***************************************************************************)
(* SpecRows: build_full_rows and get_visible_rows applied to any forest    *)
(* of up to MaxNodes sessions and any collapsed set.  A forest is given    *)
(* by the parent of each node (0 for a root).  The ids are opaque and a    *)
(* parent has a smaller id than its children, so the roots are listed in   *)
(* id order; the children of a node are stored in any order.               *)
(***************************************************************************)
ParentMaps(n) == {pm \in [1..n -> 0..(n - 1)] : \A i \in 1..n : pm[i] < i}

ChildSet(pm, p) == {c \in DOMAIN pm : pm[c] = p}

\* for every parent in `parents` an order of its children
RECURSIVE ChildListsOf(_, _)
ChildListsOf(pm, parents) ==
    IF parents = {} THEN {<<>>}
    ELSE LET p == CHOOSE q \in parents : \A r \in parents : q <= r
         IN {(p :> o) @@ f : o \in Orders(ChildSet(pm, p)),
                              f \in ChildListsOf(pm, parents \ {p})}

ChildLists(pm) == ChildListsOf(pm, {p \in DOMAIN pm : ChildSet(pm, p) # {}})

ForestSessions(n) ==
    {[i \in 1..n |-> [sessionId |-> i, firstPrompt |-> <<"a">>, name |-> <<>>,
                      firstTimestamp |-> ts[i], messageCount |-> 1]] :
        ts \in [1..n -> {0, 1}]}

\* the edges of a forest, parent by parent
RECURSIVE ForestEdges(_, _)
ForestEdges(children, parents) ==
    IF parents = {} THEN <<>>
    ELSE LET p == CHOOSE q \in parents : \A r \in parents : q <= r
         IN [i \in DOMAIN children[p] |-> <<p, children[p][i]>>]
                \o ForestEdges(children, parents \ {p})

\* the ids of S in ascending order
RECURSIVE IdOrder(_)
IdOrder(S) ==
    IF S = {} THEN <<>>
    ELSE LET m == CHOOSE x \in S : \A y \in S : y <= x
         IN Append(IdOrder(S \ {m}), m)

Forests(max) ==
    UNION {UNION {{[sessions |-> s, edges |-> ForestEdges(ch, DOMAIN ch),
                    roots |-> r, children |-> ch] :
                      s \in ForestSessions(n), r \in {IdOrder(ChildSet(pm, 0))},
                      ch \in ChildLists(pm)} :
                  pm \in ParentMaps(n)} : n \in 0..max}

InitRows ==
    /\ files = <<>>
    /\ df = NoForks
    /\ tree \in Forests(MaxNodes)
    /\ all_rows = <<>>
    /\ vis = <<>>
    /\ pc = "forest"
    /\ LoopIdle
    /\ FilterIdle

\* all_rows = build_full_rows(tree)
BuildFullRows ==
    /\ pc = "forest"
    /\ all_rows' = build_full_rows(tree)
    /\ pc' = "rows"
    /\ UNCHANGED <<files, df, tree, vis, LoopVars, FilterVars>>

\* get_visible_rows(all_rows, cset) for any set cset of ids
GetVisibleRows ==
    /\ pc = "rows"
    /\ \E cset \in SUBSET (DOMAIN tree.sessions) :
          /\ collapsed' = cset
          /\ vis' = get_visible_rows(all_rows, cset)
    /\ pc' = "visible"
    /\ UNCHANGED <<files, df, tree, all_rows, rows, selected, scroll_offset,
                   filter_text, height, result, last, pre_search, committed, FilterVars>>

NextRows == BuildFullRows \/ GetVisibleRows

SpecRows == InitRows /\ [][NextRows]_vars

(***************************************************************************)
(* Claims about build_full_rows and get_visible_rows (SpecRows).           *)
(***************************************************************************)
TreeIds == DOMAIN tree.sessions

RowIndex(id) == CHOOSE i \in DOMAIN all_rows : all_rows[i].sid = id

IsChildOf(c, p) == p \in DOMAIN tree.children /\ c \in Range(tree.children[p])

RECURSIVE IsDescendantOf(_, _, _)
IsDescendantOf(d, a, fuel) ==
    /\ fuel > 0
    /\ \/ IsChildOf(d, a)
       \/ \E m \in TreeIds : IsChildOf(m, a) /\ IsDescendantOf(d, m, fuel - 1)

\* C8: in build_full_rows' list every node comes before all its descendants,
\* the children of one parent are in ascending startTime order, and a child's
\* depth is its parent's depth plus one (roots at depth 0).
C8_FullRowsOrder ==
    pc = "rows" =>
        /\ Len(all_rows) = Cardinality(TreeIds)
        /\ \A id \in TreeIds : \E i \in DOMAIN all_rows : all_rows[i].sid = id
        /\ \A a, d \in TreeIds :
              IsDescendantOf(d, a, Cardinality(TreeIds)) => RowIndex(a) < RowIndex(d)
        /\ \A p \in DOMAIN tree.children :
              \A c1, c2 \in Range(tree.children[p]) :
                 RowIndex(c1) < RowIndex(c2) =>
                    tree.sessions[c1].firstTimestamp <= tree.sessions[c2].firstTimestamp
        /\ \A r \in Range(tree.roots) : all_rows[RowIndex(r)].depth = 0
        /\ \A p \in DOMAIN tree.children :
              \A c \in Range(tree.children[p]) :
                 all_rows[RowIndex(c)].depth = all_rows[RowIndex(p)].depth + 1

\* a forest of depth 3 whose stored child order is not the startTime order
C8_Witness ==
    /\ pc = "rows"
    /\ \E i \in DOMAIN all_rows : all_rows[i].depth = 2
    /\ \E p \in DOMAIN tree.children :
          /\ Len(tree.children[p]) >= 2
          /\ tree.sessions[tree.children[p][1]].firstTimestamp
                > tree.sessions[tree.children[p][2]].firstTimestamp

\* the fields a visible row shares with the full row it comes from
SameRow(v, r) ==
    /\ v.depth = r.depth
    /\ v.ts = r.ts
    /\ v.msgs = r.msgs
    /\ v.name = r.name
    /\ v.sid = r.sid

UnhiddenIds ==
    {id \in TreeIds :
        ~ \E a \in collapsed : IsDescendantOf(id, a, Cardinality(TreeIds))}

\* C16: get_visible_rows returns, in the order of the full list, exactly the
\* rows none of whose proper ancestors is collapsed; is_collapsed tells
\* whether the row's own id is collapsed and has_children whether the node
\* has at least one child.
C16_VisibleRows ==
    pc = "visible" =>
        /\ {vis[i].sid : i \in DOMAIN vis} = UnhiddenIds
        /\ Len(vis) = Cardinality(UnhiddenIds)
        /\ \A i, j \in DOMAIN vis :
              i < j => RowIndex(vis[i].sid) < RowIndex(vis[j].sid)
        /\ \A i \in DOMAIN vis :
              /\ SameRow(vis[i], all_rows[RowIndex(vis[i].sid)])
              /\ vis[i].is_collapsed = (vis[i].sid \in collapsed)
              /\ vis[i].has_children =
                    (\E c \in TreeIds : IsChildOf(c, vis[i].sid))

\* a collapsed node hides a grandchild, a collapsed leaf hides nothing, and a
\* row after the hidden ones is visible
C16_Witness ==
    /\ pc = "visible"
    /\ \E i \in DOMAIN all_rows :
          all_rows[i].depth = 2 /\ all_rows[i].sid \notin UnhiddenIds
    /\ \E i \in DOMAIN vis : vis[i].is_collapsed /\ ~vis[i].has_children
    /\ \E i \in DOMAIN vis : vis[i].is_collapsed /\ vis[i].has_children
    /\ vis[Len(vis)].sid = all_rows[Len(all_rows)].sid
    /\ Len(vis) = 2

(***************************************************************************)
(* main: the event loop of the interactive browser.                        *)
(*                                                                         *)
(* pc = "start"  : before build_tree_json                                  *)
(* pc = "render" : at the top of the while loop                            *)
(* pc = "key"    : drawn, at stdscr.getch()                                *)
(* pc = "done"   : main has returned                                       *)
(*                                                                         *)
(* The terminal is at least MinHeight lines high; in a terminal of fewer   *)
(* than 3 lines `visible` is negative, which is not modelled.              *)
(***************************************************************************)
Bug == <<"b", "u", "g">>

\* the rows "fix bug" and "add feature"
SearchExampleFiles ==
    <<[sessionId |-> 1, firstPrompt |-> FixBug, name |-> <<>>,
       firstTimestamp |-> 1, messageCount |-> 1],
      [sessionId |-> 2, firstPrompt |-> AddFeature, name |-> <<>>,
       firstTimestamp |-> 2, messageCount |-> 1]>>

\* sessions without a prompt ("(no prompt)"), with the prompt "a", and with
\* the prompt "a" and the custom title "Ab"; the i-th file was started at
\* time i
UIFileLists(n) ==
    {[i \in DOMAIN fs |-> [fs[i] EXCEPT !.firstTimestamp = i]] :
        fs \in FileLists(n, {<< <<>>, <<>>, 1, 1 >>,
                             << <<"a">>, <<>>, 1, 1 >>,
                             << <<"a">>, <<"A", "b">>, 1, 1 >>})}
        \cup {SearchExampleFiles}

\* the texts the operator may type: over the example's rows the prefixes of
\* "bug", otherwise any text of up to MaxFilterLen characters over {a, B}
TypedTexts(fs) ==
    IF fs = SearchExampleFiles
    THEN {SubSeq(Bug, 1, n) : n \in 0..Len(Bug)}
    ELSE UNION {[1..n -> {"a", "B"}] : n \in 0..MaxFilterLen}

Heights == MinHeight..MaxHeight

\* content_start = 2 if filter_text is not None else 1
ContentStart(ft) == IF ft # NoFilter THEN 2 ELSE 1

\* visible = height - content_start - 2
Visible(h, ft) == h - ContentStart(ft) - 2

\* draw_tree: visible_count = height - content_start - 2
DrawVisibleCount(h, ft) == h - (IF ft # NoFilter THEN 2 ELSE 1) - 2

\* rows[i] for a Python index i (a negative index counts from the end)
RowAt(rs, i) == IF i >= 0 THEN rs[i + 1] ELSE rs[Len(rs) + i + 1]

\* the filter without lower(): [r for r in base if filter_text in r[3]]
FilterRowsCaseSensitive(base, text) ==
    SelectSeq(base, LAMBDA r : Contains(text, r.name))

\* [r for r in base if filter_text.lower() in r[3].lower()]
FilterRows(base, text) ==
    SelectSeq(base, LAMBDA r : Contains(Lower(text), Lower(r.name)))

\* the scroll maintenance with "scroll_offset = selected - visible"
ScrollMaintainOffByOne(sel, off, visible) ==
    LET off1 == IF sel < off THEN sel ELSE off
    IN IF sel >= off1 + visible THEN sel - visible ELSE off1

\* lines 146-149: keep the selection inside the viewport
ScrollMaintain(sel, off, visible) ==
    LET off1 == IF sel < off THEN sel ELSE off
    IN IF sel >= off1 + visible THEN sel - visible + 1 ELSE off1

\* the scan with "rows[i][0] <= cur_depth": it stops at a sibling
ParentIndexStopsAtSibling(rs, sel) ==
    LET cur_depth == RowAt(rs, sel).depth
        above == {i \in 0..(sel - 1) : rs[i + 1].depth <= cur_depth}
    IN IF above = {} THEN sel
       ELSE CHOOSE i \in above : \A j \in above : j <= i

\* the nearest row above `sel` with a depth below that of the row at `sel`
ParentIndex(rs, sel) ==
    LET cur_depth == RowAt(rs, sel).depth
        above == {i \in 0..(sel - 1) : rs[i + 1].depth < cur_depth}
    IN IF above = {} THEN sel
       ELSE CHOOSE i \in above : \A j \in above : j <= i

Event(name) ==
    [ev |-> name, rows |-> rows, selected |-> selected, collapsed |-> collapsed,
     filter_text |-> filter_text]

Init ==
    /\ files \in UIFileLists(MaxSessions)
    /\ df = NoForks
    /\ tree = EmptyTree
    /\ all_rows = <<>>
    /\ vis = <<>>
    /\ pc = "start"
    /\ LoopIdle
    /\ FilterIdle

Fixed == <<files, df, tree, all_rows, vis, FilterVars>>

\* lines 127-139: build the tree and the rows; return None without sessions
Start ==
    /\ pc = "start"
    /\ tree' \in build_tree_json(files)
    /\ all_rows' = build_full_rows(tree')
    /\ IF all_rows' = <<>>
       THEN /\ result' = ReturnedNone
            /\ pc' = "done"
            /\ UNCHANGED <<collapsed, rows, selected, scroll_offset, filter_text>>
       ELSE /\ collapsed' = {}
            /\ rows' = get_visible_rows(all_rows', {})
            /\ selected' = 0
            /\ scroll_offset' = 0
            /\ filter_text' = NoFilter
            /\ result' = NotReturned
            /\ pc' = "render"
    /\ UNCHANGED <<files, df, vis, height, last, pre_search, committed, FilterVars>>

\* lines 142-152: read the height, maintain scroll_offset, draw, wait for a key
Render ==
    /\ pc = "render"
    /\ \E h \in Heights :
          /\ height' = h
          /\ scroll_offset' = ScrollMaintain(selected, scroll_offset,
                                             Visible(h, filter_text))
    /\ pc' = "key"
    /\ last' = NoEvent
    /\ pre_search' = IF filter_text = NoFilter THEN NoSearch ELSE pre_search
    /\ UNCHANGED <<Fixed, collapsed, rows, selected, filter_text, result, committed>>

Browsing == pc = "key" /\ filter_text = NoFilter
Searching == pc = "key" /\ filter_text # NoFilter

\* a key handled: back to the top of the loop
Handled(name) ==
    /\ pc' = "render"
    /\ last' = Event(name)
    /\ UNCHANGED <<Fixed, height, result>>

\* q or ESC
Quit ==
    /\ Browsing
    /\ result' = ReturnedNone
    /\ pc' = "done"
    /\ last' = Event("quit")
    /\ UNCHANGED <<Fixed, collapsed, rows, selected, scroll_offset, filter_text,
                   height, pre_search, committed>>

\* KEY_UP or k
MoveUp ==
    /\ Browsing
    /\ selected' = Max(0, selected - 1)
    /\ Handled("up")
    /\ UNCHANGED <<collapsed, rows, scroll_offset, filter_text, pre_search, committed>>

\* KEY_DOWN or j
MoveDown ==
    /\ Browsing
    /\ selected' = Min(Len(rows) - 1, selected + 1)
    /\ Handled("down")
    /\ UNCHANGED <<collapsed, rows, scroll_offset, filter_text, pre_search, committed>>

\* KEY_LEFT or h without the has_children test: a leaf is collapsed too
CollapseKeyAnyRow ==
    /\ Browsing
    /\ IF rows = <<>>
       THEN UNCHANGED <<collapsed, rows, selected>>
       ELSE LET row == RowAt(rows, selected)
            IN IF ~row.is_collapsed
               THEN /\ collapsed' = collapsed \cup {row.sid}
                    /\ rows' = get_visible_rows(all_rows, collapsed')
                    /\ selected' = Min(selected, Len(rows') - 1)
               ELSE /\ selected' = ParentIndex(rows, selected)
                    /\ UNCHANGED <<collapsed, rows>>
    /\ Handled("collapse")
    /\ UNCHANGED <<scroll_offset, filter_text, pre_search, committed>>

\* KEY_LEFT or h
CollapseKey ==
    /\ Browsing
    /\ IF rows = <<>>
       THEN UNCHANGED <<collapsed, rows, selected>>
       ELSE LET row == RowAt(rows, selected)
            IN IF row.has_children /\ ~row.is_collapsed
               THEN /\ collapsed' = collapsed \cup {row.sid}
                    /\ rows' = get_visible_rows(all_rows, collapsed')
                    /\ selected' = Min(selected, Len(rows') - 1)
               ELSE /\ selected' = ParentIndex(rows, selected)
                    /\ UNCHANGED <<collapsed, rows>>
    /\ Handled("collapse")
    /\ UNCHANGED <<scroll_offset, filter_text, pre_search, committed>>

\* KEY_RIGHT or l
ExpandKey ==
    /\ Browsing
    /\ IF rows = <<>>
       THEN UNCHANGED <<collapsed, rows>>
       ELSE LET row == RowAt(rows, selected)
            IN IF row.has_children /\ row.is_collapsed
               THEN /\ collapsed' = collapsed \ {row.sid}
                    /\ rows' = get_visible_rows(all_rows, collapsed')
               ELSE UNCHANGED <<collapsed, rows>>
    /\ Handled("expand")
    /\ UNCHANGED <<selected, scroll_offset, filter_text, pre_search, committed>>

\* KEY_PPAGE
PageUp ==
    /\ Browsing
    /\ selected' = Max(0, selected - Visible(height, filter_text))
    /\ Handled("pageup")
    /\ UNCHANGED <<collapsed, rows, scroll_offset, filter_text, pre_search, committed>>

\* KEY_NPAGE
PageDown ==
    /\ Browsing
    /\ selected' = Min(Len(rows) - 1, selected + Visible(height, filter_text))
    /\ Handled("pagedown")
    /\ UNCHANGED <<collapsed, rows, scroll_offset, filter_text, pre_search, committed>>

\* g
JumpTop ==
    /\ Browsing
    /\ selected' = 0
    /\ scroll_offset' = 0
    /\ Handled("top")
    /\ UNCHANGED <<collapsed, rows, filter_text, pre_search, committed>>

\* G
JumpBottom ==
    /\ Browsing
    /\ selected' = Len(rows) - 1
    /\ Handled("bottom")
    /\ UNCHANGED <<collapsed, rows, scroll_offset, filter_text, pre_search, committed>>

\* /
EnterSearch ==
    /\ Browsing
    /\ filter_text' = <<>>
    /\ pre_search' = [rows |-> rows, selected |-> selected]
    /\ committed' = NoCommit
    /\ Handled("search")
    /\ UNCHANGED <<collapsed, rows, selected, scroll_offset>>

\* Enter while browsing: return the selected row's session id
Confirm ==
    /\ Browsing
    /\ IF rows # <<>>
       THEN /\ result' = RowAt(rows, selected).sid
            /\ pc' = "done"
       ELSE /\ result' = result
            /\ pc' = "render"
    /\ last' = Event("confirm")
    /\ UNCHANGED <<Fixed, collapsed, rows, selected, scroll_offset, filter_text,
                   height, pre_search, committed>>

\* any other key while browsing
OtherKey ==
    /\ Browsing
    /\ Handled("other")
    /\ UNCHANGED <<collapsed, rows, selected, scroll_offset, filter_text, pre_search, committed>>

\* ESC while searching, leaving rows as they are
SearchEscapeKeepsRows ==
    /\ Searching
    /\ filter_text' = NoFilter
    /\ selected' = 0
    /\ scroll_offset' = 0
    /\ Handled("escape")
    /\ UNCHANGED <<collapsed, rows, pre_search, committed>>

\* ESC while searching
SearchEscape ==
    /\ Searching
    /\ filter_text' = NoFilter
    /\ rows' = get_visible_rows(all_rows, collapsed)
    /\ selected' = 0
    /\ scroll_offset' = 0
    /\ Handled("escape")
    /\ UNCHANGED <<collapsed, pre_search, committed>>

\* KEY_BACKSPACE, 127 or 8 while searching
SearchBackspace ==
    /\ Searching
    /\ filter_text' = SubSeq(filter_text, 1, Len(filter_text) - 1)
    /\ rows' = IF filter_text' = <<>>
               THEN get_visible_rows(all_rows, collapsed)
               ELSE FilterRows(get_visible_rows(all_rows, collapsed), filter_text')
    /\ selected' = Min(selected, Max(0, Len(rows') - 1))
    /\ scroll_offset' = 0
    /\ Handled("backspace")
    /\ UNCHANGED <<collapsed, pre_search, committed>>

\* Enter while searching: keep the filtered rows
SearchEnter ==
    /\ Searching
    /\ filter_text' = NoFilter
    /\ committed' = [set |-> TRUE, rows |-> rows, text |-> filter_text]
    /\ Handled("enter")
    /\ UNCHANGED <<collapsed, rows, selected, scroll_offset, pre_search>>

\* a printable character while searching, without the clamp of selected
SearchCharNoClamp ==
    /\ Searching
    /\ \E c \in {"a", "B", "b", "u", "g"} :
          /\ Append(filter_text, c) \in TypedTexts(files)
          /\ filter_text' = Append(filter_text, c)
    /\ rows' = FilterRows(get_visible_rows(all_rows, collapsed), filter_text')
    /\ scroll_offset' = 0
    /\ Handled("char")
    /\ UNCHANGED <<collapsed, selected, pre_search, committed>>

\* a printable character (32..126) while searching
SearchChar ==
    /\ Searching
    /\ \E c \in {"a", "B", "b", "u", "g"} :
          /\ Append(filter_text, c) \in TypedTexts(files)
          /\ filter_text' = Append(filter_text, c)
    /\ rows' = FilterRows(get_visible_rows(all_rows, collapsed), filter_text')
    /\ selected' = Min(selected, Max(0, Len(rows') - 1))
    /\ scroll_offset' = 0
    /\ Handled("char")
    /\ UNCHANGED <<collapsed, pre_search, committed>>

\* any other key while searching
SearchOtherKey ==
    /\ Searching
    /\ Handled("other")
    /\ UNCHANGED <<collapsed, rows, selected, scroll_offset, filter_text, pre_search, committed>>

Next ==
    \/ Start
    \/ Render
    \/ Quit
    \/ MoveUp
    \/ MoveDown
    \/ CollapseKey
    \/ ExpandKey
    \/ PageUp
    \/ PageDown
    \/ JumpTop
    \/ JumpBottom
    \/ EnterSearch
    \/ Confirm
    \/ OtherKey
    \/ SearchEscape
    \/ SearchBackspace
    \/ SearchEnter
    \/ SearchChar
    \/ SearchOtherKey

Spec == Init /\ [][Next]_vars

(***************************************************************************)
(* Claims about the event loop (Spec).                                     *)
(***************************************************************************)
InLoop == pc \in {"render", "key"}

\* C1: after any sequence of events selected is within [0, len(rows) - 1]
\* when rows is not empty and is 0 when rows is empty.
C1_SelectedInRange ==
    InLoop =>
        IF rows = <<>> THEN selected = 0
        ELSE 0 <= selected /\ selected <= Len(rows) - 1

C3_SelectedInViewport ==
    (pc = "key" /\ DrawVisibleCount(height, filter_text) >= 1) =>
        /\ scroll_offset <= selected
        /\ selected < scroll_offset + DrawVisibleCount(height, filter_text)

\* the first render of a search entered with the second row selected and not
\* scrolled: the viewport is one row and scroll_offset has followed
C3_Witness ==
    /\ pc = "key"
    /\ filter_text = <<>>
    /\ DrawVisibleCount(height, filter_text) = 1
    /\ pre_search.selected = 1
    /\ selected = 1
    /\ scroll_offset = 1
    /\ Len(rows) = 3

\* the row selected before the last event is not among the rows after it
SelectedFilteredOut ==
    /\ last.rows # <<>>
    /\ \A i \in DOMAIN rows : rows[i].sid # RowAt(last.rows, last.selected).sid

\* C10 as claimed: a printable character that filters the selected row out
\* sets selected to 0.
C10_ResetToZero ==
    (pc = "render" /\ last.ev = "char" /\ SelectedFilteredOut) => selected = 0

\* C10 as amended: a printable character that filters the selected row out
\* clamps selected to min(selected, max(0, len(rows) - 1)), which is 0 when at
\* most one row is left and selected was not negative; "bug" over the rows
\* "fix bug" and "add feature" leaves only the "fix bug" row.
C10_Clamped ==
    /\ (pc = "render" /\ last.ev = "char" /\ SelectedFilteredOut) =>
          /\ selected = Min(last.selected, Max(0, Len(rows) - 1))
          /\ (Len(rows) <= 1 /\ last.selected >= 0) => selected = 0
    /\ (pc = "render" /\ last.ev = "char" /\ files = SearchExampleFiles
            /\ filter_text = Bug) =>
          /\ Len(rows) = 1
          /\ rows[1].name = FixBug
          /\ selected = 0

\* the third row was selected and is filtered out; two rows are left and the
\* second is selected
C10_Witness ==
    /\ pc = "render"
    /\ last.ev = "char"
    /\ SelectedFilteredOut
    /\ last.selected = 2
    /\ Len(rows) = 2
    /\ selected = 1

\* C12: scroll_offset is never negative in the event loop.
C12_ScrollNonNegative == InLoop => scroll_offset >= 0

\* every row's name contains the text, case-insensitively
AllMatch(rs, text) ==
    \A i \in DOMAIN rs : Contains(Lower(text), Lower(rs[i].name))

\* C13: Enter while searching leaves a browsing state with the
\* same rows, and the filtered list stays the view through every following
\* browsing event (moves, paging, jumps, collapse, expand) until the next
\* search: the list is the committed one or, at the least (a collapse or
\* expand changes which rows are hidden), it shows only rows that match the
\* committed text.
C13_CommittedListStays ==
    /\ (pc = "render" /\ last.ev = "enter") =>
          (filter_text = NoFilter /\ rows = last.rows)
    /\ (InLoop /\ committed.set) =>
          /\ filter_text = NoFilter
          /\ \/ rows = committed.rows
             \/ AllMatch(rows, committed.text)

\* what the code does: Enter while searching leaves a browsing state with
\* the same rows, and every following browsing event before the next search
\* leaves the rows as they are if it leaves the collapsed set as it is (moves,
\* paging, jumps, go to parent); a collapse or expand that changes the
\* collapsed set replaces them by get_visible_rows(all_rows, collapsed).
C13_CommittedUntilRecompute ==
    [][/\ (Searching /\ pc' = "render" /\ last'.ev = "enter") =>
             /\ filter_text' = NoFilter
             /\ rows' = rows
             /\ committed' = [set |-> TRUE, rows |-> rows, text |-> filter_text]
       /\ (committed.set /\ committed'.set) =>
             /\ filter_text' = NoFilter
             /\ committed' = committed
             /\ collapsed' = collapsed => rows' = rows
             /\ collapsed' # collapsed =>
                   rows' = get_visible_rows(all_rows, collapsed')]_vars

\* a filtered list of two rows out of three was committed and the selection
\* has moved down in it
C13_Witness ==
    /\ pc = "render"
    /\ committed.set
    /\ last.ev = "down"
    /\ rows = committed.rows
    /\ Len(rows) = 2
    /\ Len(get_visible_rows(all_rows, collapsed)) = 3
    /\ selected = 1

\* the row that was selected when the last event was read
LastRow == RowAt(last.rows, last.selected)

\* C14: an expand event on a selected collapsed row removes its id from the
\* collapsed set and leaves selected unchanged, and the row at selected after
\* the event is still the row of the session that was expanded.
C14_ExpandKeepsRow ==
    (pc = "render" /\ last.ev = "expand" /\ last.rows # <<>>
        /\ LastRow.has_children /\ LastRow.is_collapsed) =>
        /\ collapsed = last.collapsed \ {LastRow.sid}
        /\ selected = last.selected
        /\ rows # <<>>
        /\ RowAt(rows, selected).sid = LastRow.sid

\* the ids of the rows of a list
RowIds(rs) == {rs[i].sid : i \in DOMAIN rs}

\* the position of the row of session id in the list rs
PositionIn(rs, id) == CHOOSE i \in DOMAIN rs : rs[i].sid = id

\* the rows of all_rows that a collapsed proper ancestor hides
HiddenIds ==
    {d \in TreeIds : \E a \in collapsed : IsDescendantOf(d, a, Cardinality(TreeIds))}

\* rs is the subsequence of base of the rows whose name contains text,
\* case-insensitively
IsMatchingSubsequence(rs, base, text) ==
    /\ \A i \in DOMAIN rs :
          /\ \E j \in DOMAIN base : base[j] = rs[i]
          /\ Contains(Lower(text), Lower(rs[i].name))
    /\ \A j \in DOMAIN base :
          Contains(Lower(text), Lower(base[j].name)) =>
              \E i \in DOMAIN rs : rs[i] = base[j]
    /\ \A i, j \in DOMAIN rs :
          i < j => PositionIn(base, rs[i].sid) < PositionIn(base, rs[j].sid)

\* C15: after a printable character or a backspace while searching, rows is
\* the subsequence of get_visible_rows(all_rows, collapsed) of the rows whose
\* name contains filter_text case-insensitively (all of it when the text is
\* empty), and no row hidden by a collapsed ancestor is in it.
C15_SearchRows ==
    (pc = "render" /\ last.ev \in {"char", "backspace"}) =>
        /\ filter_text # NoFilter
        /\ collapsed = last.collapsed
        /\ IsMatchingSubsequence(rows, get_visible_rows(all_rows, collapsed),
                                 filter_text)
        /\ filter_text = <<>> => rows = get_visible_rows(all_rows, collapsed)
        /\ RowIds(rows) \cap HiddenIds = {}

\* "B" typed over the rows "(no prompt)" and a collapsed "Ab" whose hidden
\* child is named "Ab" too: only the collapsed row is listed
C15_Witness ==
    /\ pc = "render"
    /\ last.ev = "char"
    /\ filter_text = <<"B">>
    /\ Len(rows) = 1
    /\ rows[1].is_collapsed
    /\ Len(get_visible_rows(all_rows, collapsed)) = 2
    /\ \E i \in DOMAIN all_rows :
          /\ all_rows[i].sid \in HiddenIds
          /\ Contains(Lower(filter_text), Lower(all_rows[i].name))

\* the indices below sel of the rows of rs with a depth below that of the
\* selected row
ShallowerBelow(rs, sel) ==
    {i \in 0..(Len(rs) - 1) : i < sel /\ rs[i + 1].depth < RowAt(rs, sel).depth}

\* C17: a collapse event on a selected row that has no children or is
\* already collapsed sets selected to the largest index below the current
\* one whose row has a strictly smaller depth, and changes nothing when there
\* is none; the collapsed set and the rows are unchanged in both cases.
C17_GoToParent ==
    [][(/\ Browsing
        /\ last'.ev = "collapse"
        /\ rows # <<>>
        /\ ~(RowAt(rows, selected).has_children
                /\ ~RowAt(rows, selected).is_collapsed)) =>
          /\ UNCHANGED <<collapsed, rows, scroll_offset, filter_text>>
          /\ IF ShallowerBelow(rows, selected) = {}
             THEN selected' = selected
             ELSE /\ selected' \in ShallowerBelow(rows, selected)
                  /\ \A i \in ShallowerBelow(rows, selected) : i <= selected']_vars

\* from the second child the selection went to the parent, past the first
\* child
C17_Witness ==
    /\ pc = "render"
    /\ last.ev = "collapse"
    /\ rows = last.rows
    /\ last.selected = 2
    /\ selected = 0
    /\ rows[2].depth = 1
    /\ rows[3].depth = 1

\* main has returned a session id
Resumed == pc = "done" /\ result \notin {ReturnedNone, NotReturned}

C19_CollapseKeepsRow ==
    (pc = "render" /\ last.ev = "collapse" /\ last.rows # <<>>
        /\ LastRow.has_children /\ ~LastRow.is_collapsed) =>
        /\ Len(rows) <= Len(last.rows)
        /\ rows # <<>>
        /\ RowAt(rows, selected).sid = LastRow.sid

\* rs is a subsequence of base: its rows are rows of base, in base's order
IsSubsequence(rs, base) ==
    /\ \A i \in DOMAIN rs : \E j \in DOMAIN base : base[j] = rs[i]
    /\ \A i, j \in DOMAIN rs :
          i < j => PositionIn(base, rs[i].sid) < PositionIn(base, rs[j].sid)

\* C20: in every state of the loop, rows is an order-preserving subsequence
\* of get_visible_rows(all_rows, collapsed), the is_collapsed flag of every
\* row tells whether its id is in the collapsed set, and the collapsed set
\* holds only ids of sessions with at least one child.
C20_RowsWithinVisible ==
    InLoop =>
        /\ IsSubsequence(rows, get_visible_rows(all_rows, collapsed))
        /\ \A i \in DOMAIN rows : rows[i].is_collapsed = (rows[i].sid \in collapsed)
        /\ \A id \in collapsed :
              /\ id \in TreeIds
              /\ \E c \in TreeIds : IsChildOf(c, id)

\* a committed filtered list that is shorter than the visible list, with a
\* collapsed row in it, while browsing
C20_Witness ==
    /\ pc = "key"
    /\ filter_text = NoFilter
    /\ collapsed # {}
    /\ Len(rows) = 1
    /\ rows[1].is_collapsed
    /\ Len(get_visible_rows(all_rows, collapsed)) = 2
    /\ Len(all_rows) = 3

====
